---- MODULE Spec2Model ----
(***************************************************************************)
(* Quote portal: the quotes table behind the Kanban board (db layer and    *)
(* the Express quote routes) and the reminder scheduler.                   *)
(*                                                                         *)
(* The database is PostgreSQL reached through one node-postgres Pool.      *)
(* Every pool.query(...) of the code runs ONE statement on whichever       *)
(* pooled connection the pool hands out; a transaction (BEGIN ... COMMIT)  *)
(* belongs to the connection its BEGIN ran on.  Each `await` of a handler  *)
(* is a point where other handlers and the scheduler may run.  Which       *)
(* connection a statement gets depends on what else the process has in     *)
(* flight on the pool (every route and the scheduler share it), so the     *)
(* choice is left open: any connection, for every statement.               *)
(***************************************************************************)
EXTENDS Integers, Sequences, FiniteSets, TLC

(* ------------------------------ bounds -------------------------------- *)
MaxMoves == 2      \* longest `updates` array of a reorder request
MaxPos   == 2      \* largest position a request body carries
MaxTime  == 2      \* the clock runs 0..MaxTime
MaxReq   == 4      \* requests a run of the board receives
MaxReorderReq == 2 \* requests a run of the reorder specification receives
MaxReminderReq == 1 \* requests a run of the reminder specification receives

Conns == {1, 2}                  \* pooled connections
Procs == {1, 2}                  \* HTTP requests in flight at once
Ids   == {"A", "B", "C"}         \* quote ids

(* ------------------------------ values -------------------------------- *)
Null   == -1                     \* SQL NULL in a timestamp column
NoMail == "null"                 \* SQL NULL in reminder_email
SqlNull == "NULL"                \* SQL NULL bound to the stage column

\* STAGES, the board's static column list, in order.
STAGES == <<"new", "follow_up", "tender", "won", "lost">>

StageSet == {STAGES[i] : i \in 1..Len(STAGES)}

\* A row of table quotes (the columns the ordering and the reminders use).
\* stage = "-" stands for "no row with this id".
NoRow == [stage |-> "-", position |-> 0, nextChaseAt |-> Null,
          lastChasedAt |-> Null, reminderEmail |-> NoMail, createdAt |-> 0,
          title |-> "Quote", clientName |-> "Client", attachmentUrl |-> NoMail]

\* In a write set: "this statement did not touch the row".
NoWrite == [NoRow EXCEPT !.stage = "~"]

Exists(r) == r.stage # "-"

NoWrites == [i \in Ids |-> NoWrite]

VARIABLES
  quotes,    \* committed rows of table quotes: Ids -> row or NoRow
  tx,        \* per connection: "none", "open" (after BEGIN), "failed" (aborted)
  pend,      \* per connection: rows written in its open transaction
  req,       \* per request slot: the handler in flight and its locals
  resp,      \* the HTTP response the step just taken sent (NoResp: none)
  served,    \* requests received so far (counted up to MaxReq)
  now,       \* wall clock
  smtp,      \* is an SMTP transport configured (else reminders are logged)
  tick,      \* per scheduler firing: the cron callback in flight
  hist,      \* history: what the reminder engine did per quote
  customers, \* table customers: the stored names (name text unique)
  users,     \* table users: the stored emails (email text unique)
  ui         \* the board in the browser (KanbanApp's state)

vars == <<quotes, tx, pend, req, resp, served, smtp, now, tick, hist,
          customers, users, ui>>

(* ------------------------- names and the browser ---------------------- *)

\* A name, a title or a search term is the sequence of its characters.
\* String.prototype.toLowerCase / SQL lower(), on the letters in use.
LowerChar(ch) ==
  CASE ch = "A" -> "a" [] ch = "B" -> "b" [] ch = "C" -> "c"
    [] ch = "F" -> "f" [] ch = "O" -> "o" [] ch = "P" -> "p"
    [] ch = "Q" -> "q" [] ch = "R" -> "r"
    [] OTHER -> ch
toLowerCase(s) == [n \in 1..Len(s) |-> LowerChar(s[n])]

\* String.prototype.trim: without the blanks at either end.
RECURSIVE trim(_)
trim(s) ==
  IF Len(s) = 0 THEN s
  ELSE IF Head(s) = " " THEN trim(Tail(s))
  ELSE IF s[Len(s)] = " " THEN trim(SubSeq(s, 1, Len(s) - 1))
  ELSE s

\* String.prototype.includes
includes(s, term) ==
  \E k \in 0..(Len(s) - Len(term)) : SubSeq(s, k + 1, k + Len(term)) = term

\* The character classes [A-Z], [a-z] and [0-9], on the letters in use.
UpperCase == {"A", "B", "C", "F", "O", "P", "Q", "R"}
LowerCase == {"a", "b", "c", "d", "e", "f", "i", "l", "m", "n", "o", "p",
              "q", "r", "s", "t", "u", "w", "y"}
Digits == {"0", "1", "2", "3", "4", "5", "6", "7", "8", "9"}
Has(s, class) == \E n \in 1..Len(s) : s[n] \in class

\* A request body without the name (undefined).
NoName == <<"~">>

\* ensureAdminUser: the user created at start-up when there is none.
Admin == <<"a", "d", "m", "i", "n">>

\* A DropResult: the card dragged, where it was taken from and where it was
\* dropped (a column and an index from 0); NoDest: dropped outside a column.
NoDest == [droppableId |-> "-", index |-> 0]
NoDrag == [draggableId |-> "-", source |-> NoDest, destination |-> NoDest]

\* KanbanApp when it mounts: no quotes, no filter; pc is where its effect
\* or its onDragEnd stands. drag, updates (the last DropResult and the move
\* list computed for it) and drags (DropResults so far) are history fields.
NoUi == [quotes |-> <<>>, filter |-> <<>>, updates |-> <<>>, drag |-> NoDrag,
         pc |-> "mount", drags |-> 0]

(* ----------------------- PostgreSQL, per statement -------------------- *)

\* What a statement on connection c reads: committed rows, overlaid with
\* the uncommitted writes of c's own open transaction (READ COMMITTED).
View(c) ==
  [i \in Ids |-> IF tx[c] = "open" /\ pend[c][i] # NoWrite
                 THEN pend[c][i] ELSE quotes[i]]

\* A row lock held by another connection's unfinished transaction makes the
\* statement wait.
Blocked(c, ids) ==
  \E c2 \in Conns \ {c} : \E i \in ids : pend[c2][i] # NoWrite

\* Does a statement on c raise an error: inside an aborted transaction every
\* statement but COMMIT/ROLLBACK does (25P02); bad = it violates a constraint.
StmtFails(c, bad) == tx[c] = "failed" \/ bad

Overlay(base, w) == [i \in Ids |-> IF w[i] # NoWrite THEN w[i] ELSE base[i]]

\* A data-changing statement on c writing rows w (NoWrite elsewhere).
\* Outside a transaction it commits at once; inside one it stays pending; an
\* error inside a transaction aborts the transaction.
Write(c, w, bad) ==
  IF tx[c] = "failed" THEN UNCHANGED <<quotes, tx, pend>>
  ELSE IF bad THEN
       /\ tx' = [tx EXCEPT ![c] = IF tx[c] = "open" THEN "failed" ELSE "none"]
       /\ UNCHANGED <<quotes, pend>>
  ELSE IF tx[c] = "open" THEN
       /\ pend' = [pend EXCEPT ![c] = Overlay(pend[c], w)]
       /\ UNCHANGED <<quotes, tx>>
  ELSE /\ quotes' = Overlay(quotes, w)
       /\ UNCHANGED <<tx, pend>>

\* BEGIN on c. In an open transaction it is a warning and changes nothing.
Begin(c) ==
  /\ tx' = [tx EXCEPT ![c] = IF tx[c] = "none" THEN "open" ELSE tx[c]]
  /\ UNCHANGED <<quotes, pend>>

\* COMMIT on c: publishes c's pending rows; in an aborted transaction it
\* rolls back; outside a transaction it is a warning.
Commit(c) ==
  /\ quotes' = IF tx[c] = "open" THEN Overlay(quotes, pend[c]) ELSE quotes
  /\ tx' = [tx EXCEPT ![c] = "none"]
  /\ pend' = [pend EXCEPT ![c] = NoWrites]

\* ROLLBACK on c: drops c's pending rows; outside a transaction a warning.
Rollback(c) ==
  /\ tx' = [tx EXCEPT ![c] = "none"]
  /\ pend' = [pend EXCEPT ![c] = NoWrites]
  /\ UNCHANGED quotes

(* ------------------------------ history ------------------------------- *)

\* Per quote, for the value of next_chase_at now in place (one due
\* occurrence): send attempts, sends that succeeded, sends that failed.
\* answered: did the last getDueReminders of a callback answer (or throw).
NoHist == [tries |-> [i \in Ids |-> 0], sends |-> [i \in Ids |-> 0],
           fails |-> [i \in Ids |-> 0], answered |-> FALSE]

\* A request (create, or an edit naming nextChaseAt) puts a value of
\* next_chase_at in place for quote i: a new occurrence.
NewOccurrence(i) ==
  [hist EXCEPT !.tries[i] = 0, !.sends[i] = 0, !.fails[i] = 0]

(* ------------------------------ requests ------------------------------ *)

\* A request body's fields; "~", Unset: the body does not name the field.
Unset   == -2
NoPatch == [stage |-> "~", position |-> Unset, nextChaseAt |-> Unset,
            reminderEmail |-> "~", createdAt |-> Unset, id |-> "~",
            title |-> "~", clientName |-> "~", attachmentUrl |-> "~",
            customerName |-> NoName]

NoRows == [i \in Ids |-> NoRow]

\* The Authorization header of a request: the scheme, and of the token its
\* length, whether jwt.verify finds the signature made with JWT_SECRET, and
\* whether it is past its expiry.
NoHeader == [scheme |-> "-", len |-> 0, signed |-> FALSE, expired |-> FALSE]

\* The header of a logged-in user: a token from generateToken, not expired.
Token == [scheme |-> "Bearer", len |-> 150, signed |-> TRUE, expired |-> FALSE]

\* Mutant: the middleware without the expiry check of jwt.verify.
authMiddlewareNoExpiry(h) ==
  /\ h.scheme = "Bearer"
  /\ h.len >= 10
  /\ h.signed

\* authMiddleware: next() is called when the header starts with 'Bearer ',
\* the token has at least 10 characters and jwt.verify(token, JWT_SECRET)
\* returns (signature valid, not expired); else 401.
authMiddleware(h) ==
  /\ h.scheme = "Bearer"
  /\ h.len >= 10
  /\ h.signed /\ ~h.expired

\* A request slot: the handler (op), where it stands (pc) and its locals.
\* pre is a history field: the committed table when the handler started;
\* body is the request body as received, where the handler keeps part of it;
\* auth is the Authorization header the request came with.
Idle == [op |-> "idle", pc |-> "-", id |-> "-", patch |-> NoPatch,
         moves |-> <<>>, k |-> 0, maxPos |-> 0, row |-> NoRow, pre |-> NoRows,
         body |-> NoPatch, auth |-> NoHeader, name |-> <<>>]

\* The request record of a call of route op that came with header h.
Caller(h, op) == [Idle EXCEPT !.op = op, !.auth = h]

\* A response: the request it answers, the status, and the JSON body: a row
\* (one quote), or rows in the order of the array `order` (a list of quotes),
\* or a customer (its stored name), or a message.
NoResp == [req |-> Idle, status |-> 0, row |-> NoRow, body |-> NoRows,
           order |-> <<>>, customer |-> <<>>, message |-> "-"]

Answer(p, status) == [NoResp EXCEPT !.req = req[p], !.status = status]

Max(S) == CHOOSE x \in S : \A y \in S : y <= x

\* select coalesce(max(position), 0) as max_pos from quotes where stage = $1
SelectMaxPos(v, stage) ==
  LET ps == {v[i].position : i \in {j \in Ids : v[j].stage = stage}}
  IN  IF ps = {} THEN 0 ELSE Max(ps)

\* const newPosition = (maxPos[0]?.max_pos || 0) + 1
NewPosition(maxPos) == (IF maxPos = 0 THEN 0 ELSE maxPos) + 1

\* createQuote(payload): title: payload.title ?? 'Untitled quote', clientName:
\* payload.clientName ?? 'Unknown client', stage: payload.stage ?? 'new', nextChaseAt:
\* payload.nextChaseAt ?? null, reminderEmail: payload.reminderEmail ?? null,
\* createdAt: payload.createdAt || now. The position is insertQuote's.
createQuote(payload, at) ==
  [NoRow EXCEPT
     !.title = IF payload.title = "~" THEN "Untitled quote" ELSE payload.title,
     !.clientName = IF payload.clientName = "~" THEN "Unknown client"
                    ELSE payload.clientName,
     !.attachmentUrl = IF payload.attachmentUrl = "~" THEN NoMail
                       ELSE payload.attachmentUrl,
     !.stage = IF payload.stage = "~" THEN "new" ELSE payload.stage,
     !.nextChaseAt = IF payload.nextChaseAt = Unset THEN Null
                     ELSE payload.nextChaseAt,
     !.reminderEmail = IF payload.reminderEmail = "~" THEN NoMail
                       ELSE payload.reminderEmail,
     !.createdAt = IF payload.createdAt = Unset THEN at ELSE payload.createdAt]

\* payload.id || `q_${Date.now()}_${Math.random()...}`: a generated id is
\* one nothing uses yet (the first such, ids being interchangeable).
IdSeq == <<"A", "B", "C">>
Unused(i) ==
  /\ ~Exists(quotes[i])
  /\ \A c \in Conns : pend[c][i] = NoWrite
  /\ \A p \in Procs : ~(req[p].op = "create" /\ req[p].id = i)
FreshIds ==
  {IdSeq[n] : n \in {m \in 1..Len(IdSeq) :
                       /\ Unused(IdSeq[m])
                       /\ \A l \in 1..(m-1) : ~Unused(IdSeq[l])}}

\* A new request takes the first free slot (slots are interchangeable).
Free(p) == req[p].op = "idle" /\ \A q \in Procs : q < p => req[q].op # "idle"

\* The handler of slot p goes on to r / ends with response a.
Goto(p, r) == req' = [req EXCEPT ![p] = r] /\ resp' = NoResp /\ UNCHANGED served
Done(p, a) == req' = [req EXCEPT ![p] = Idle] /\ resp' = a /\ UNCHANGED served

\* A request arrives: slot p starts handler r / is answered at once with a.
Count == served' = IF served < MaxReq THEN served + 1 ELSE served
Start(p, r) == req' = [req EXCEPT ![p] = r] /\ resp' = NoResp /\ Count
Reject(a) == UNCHANGED req /\ resp' = a /\ Count

\* return res.status(401).json(...): the route's handler is not called.
Unauthorized(h, op) == Reject([NoResp EXCEPT !.status = 401, !.req = Caller(h, op)])

\* if (body.customerName && !customerId): the body names a customer (the
\* bodies of the model carry no customerId).
NamesCustomer(payload) ==
  payload.customerName # NoName /\ Len(payload.customerName) > 0

\* POST /api/quotes: findOrCreateCustomer when the body names a customer,
\* createQuote, then insertQuote's first statement.
PostQuoteAs(h, p, id, payload) ==
  /\ Free(p)
  /\ IF ~authMiddleware(h) THEN Unauthorized(h, "create")
     ELSE /\ id \in FreshIds
          /\ Start(p, [Caller(h, "create") EXCEPT
                          !.pc = IF NamesCustomer(payload) THEN "find" ELSE "max",
                          !.name = IF NamesCustomer(payload)
                                   THEN payload.customerName ELSE <<>>,
                          !.id = id, !.patch = payload,
                          !.row = createQuote(payload, now)])
  /\ UNCHANGED <<quotes, tx, pend, smtp, now, tick, hist, customers, users, ui>>

\* The same from a logged-in user.
PostQuote(p, id, payload) == PostQuoteAs(Token, p, id, payload)

\* insertQuote: select max(position) of the stage.
InsertQuoteMax(p, c) ==
  /\ req[p].op = "create" /\ req[p].pc = "max"
  /\ IF StmtFails(c, FALSE)
     THEN Done(p, Answer(p, 500))
     ELSE Goto(p, [req[p] EXCEPT !.pc = "insert",
                                 !.maxPos = SelectMaxPos(View(c), req[p].row.stage)])
  /\ UNCHANGED <<quotes, tx, pend, smtp, now, tick, hist, customers, users, ui>>

\* insertQuote: insert into quotes (...) values (..., newPosition, ...).
InsertQuoteInsert(p, c) ==
  /\ req[p].op = "create" /\ req[p].pc = "insert"
  /\ LET r == [req[p].row EXCEPT !.position = NewPosition(req[p].maxPos)]
     IN  /\ Write(c, [NoWrites EXCEPT ![req[p].id] = r], FALSE)
         /\ IF StmtFails(c, FALSE)
            THEN Done(p, Answer(p, 500)) /\ UNCHANGED hist
            ELSE /\ Goto(p, [req[p] EXCEPT !.pc = "fetch", !.row = r])
                 /\ hist' = NewOccurrence(req[p].id)
  /\ UNCHANGED <<smtp, now, tick, customers, users, ui>>

\* POST /api/quotes: const fullQuote = await getQuoteById(quote.id);
\* res.status(201).json(fullQuote || quote)
PostQuoteFetch(p, c) ==
  /\ req[p].op = "create" /\ req[p].pc = "fetch"
  /\ IF StmtFails(c, FALSE)
     THEN Done(p, Answer(p, 500))
     ELSE Done(p, [Answer(p, 201) EXCEPT
                     !.row = IF Exists(View(c)[req[p].id])
                             THEN View(c)[req[p].id] ELSE req[p].row])
  /\ UNCHANGED <<quotes, tx, pend, smtp, now, tick, hist, customers, users, ui>>

(* --------------------------- findOrCreateCustomer --------------------- *)

\* POST /api/customers: 400 without a name (!name || !name.trim()), else
\* findOrCreateCustomer(name.trim()).
PostCustomerAs(h, p, name) ==
  /\ Free(p)
  /\ IF ~authMiddleware(h) THEN Unauthorized(h, "customer")
     ELSE IF name = NoName \/ Len(trim(name)) = 0
     THEN Reject([NoResp EXCEPT !.status = 400, !.message = "Customer name is required",
                     !.req = [Caller(h, "customer") EXCEPT !.name = name]])
     ELSE Start(p, [Caller(h, "customer") EXCEPT !.pc = "find", !.name = trim(name)])
  /\ UNCHANGED <<quotes, tx, pend, smtp, now, tick, hist, customers, users, ui>>

PostCustomer(p, name) == PostCustomerAs(Token, p, name)

\* The caller of findOrCreateCustomer goes on with the customer: POST
\* /api/customers answers 201 with it, POST /api/quotes goes on to
\* insertQuote (customerId = customer.id).
Returned(p, customer) ==
  IF req[p].op = "customer"
  THEN Done(p, [Answer(p, 201) EXCEPT !.customer = customer])
  ELSE Goto(p, [req[p] EXCEPT !.pc = "max"])

\* findOrCreateCustomer throws; both routes catch and answer 500.
Thrown(p, message) == Done(p, [Answer(p, 500) EXCEPT !.message = message])

\* select * from customers where lower(name) = lower($1), $1 = name.trim()
SelectCustomers(name) ==
  {n \in customers : toLowerCase(n) = toLowerCase(trim(name))}

\* findOrCreateCustomer: throws without a name; else the select, and
\* existing[0] (any matching row: there is no ORDER BY) is returned when
\* there is one.
FindCustomer(p) ==
  /\ req[p].op \in {"customer", "create"} /\ req[p].pc = "find"
  /\ IF Len(trim(req[p].name)) = 0
     THEN Thrown(p, "Customer name is required")
     ELSE IF SelectCustomers(req[p].name) # {}
     THEN \E existing \in SelectCustomers(req[p].name) : Returned(p, existing)
     ELSE Goto(p, [req[p] EXCEPT !.pc = "insertCustomer"])
  /\ UNCHANGED <<quotes, tx, pend, smtp, now, tick, hist, customers, users, ui>>

\* findOrCreateCustomer: insert into customers (name) values ($1) returning *
\* with $1 = name.trim(); a name already stored in this spelling violates
\* the unique constraint on name (23505) and the error is thrown on.
InsertCustomer(p) ==
  /\ req[p].op \in {"customer", "create"} /\ req[p].pc = "insertCustomer"
  /\ IF trim(req[p].name) \in customers
     THEN /\ Thrown(p, "duplicate key value violates unique constraint")
          /\ UNCHANGED customers
     ELSE /\ customers' = customers \cup {trim(req[p].name)}
          /\ Returned(p, trim(req[p].name))
  /\ UNCHANGED <<quotes, tx, pend, smtp, now, tick, hist, users, ui>>

(* ------------------------------- register ---------------------------- *)

\* body('username').trim().isLength({ min: 3, max: 50 }).matches(/^[a-zA-Z0-9_]+$/)
ValidUsername(username) ==
  /\ Len(trim(username)) >= 3 /\ Len(trim(username)) <= 50
  /\ \A n \in 1..Len(trim(username)) :
       trim(username)[n] \in UpperCase \cup LowerCase \cup Digits \cup {"_"}

\* body('password').isLength({ min: 8 }) and validatePassword: at least 8
\* characters, an uppercase letter, a lowercase letter and a digit.
validatePassword(password) ==
  /\ Len(password) >= 8
  /\ Has(password, UpperCase) /\ Has(password, LowerCase) /\ Has(password, Digits)

\* sanitizeInput: input.trim().replace(/[<>]/g, '')
sanitizeInput(input) ==
  LET NotAngle(ch) == ch \notin {"<", ">"}
  IN  SelectSeq(trim(input), NotAngle)

\* POST /api/auth/register: 400 when the validators or validatePassword
\* reject the body; else email = sanitizedUsername.toLowerCase() and
\* findUserByEmail(email). The route takes no token.
PostRegister(p, body) ==
  /\ Free(p)
  /\ IF ~ValidUsername(body.username) \/ ~validatePassword(body.password)
     THEN Reject([NoResp EXCEPT !.status = 400,
                     !.req = [Caller(NoHeader, "register") EXCEPT
                                !.name = body.username]])
     ELSE Start(p, [Caller(NoHeader, "register") EXCEPT !.pc = "find",
                       !.name = toLowerCase(sanitizeInput(body.username))])
  /\ UNCHANGED <<quotes, tx, pend, smtp, now, tick, hist, customers, users, ui>>

\* findUserByEmail: select * from users where email = $1 with
\* $1 = email.toLowerCase(); 409 when there is a row, else bcrypt.hash.
RegisterFind(p) ==
  /\ req[p].op = "register" /\ req[p].pc = "find"
  /\ IF toLowerCase(req[p].name) \in users
     THEN Done(p, [Answer(p, 409) EXCEPT !.message = "Username already in use"])
     ELSE Goto(p, [req[p] EXCEPT !.pc = "create"])
  /\ UNCHANGED <<quotes, tx, pend, smtp, now, tick, hist, customers, users, ui>>

\* The error of an insert that violates users' unique email, and what
\* createUser's catch throws in its place: a new Error, without a code.
UniqueViolation == [code |-> "23505", message |-> "duplicate key value"]
createUserCatch(err) == [code |-> "-", message |-> "Database connection error"]

\* The route's catch: message = err.code === '23505' ? 'Username already in
\* use' : 'Error registering user', answered with status 500.
RegisterCatch(p, err) ==
  Done(p, [Answer(p, 500) EXCEPT
             !.message = IF err.code = "23505" THEN "Username already in use"
                         ELSE "Error registering user"])

\* createUser: insert into users (email, password_hash) values ($1, $2) with
\* $1 = email.toLowerCase(); then 201 with a token.
RegisterCreate(p) ==
  /\ req[p].op = "register" /\ req[p].pc = "create"
  /\ IF toLowerCase(req[p].name) \in users
     THEN /\ RegisterCatch(p, createUserCatch(UniqueViolation))
          /\ UNCHANGED users
     ELSE /\ users' = users \cup {toLowerCase(req[p].name)}
          /\ Done(p, Answer(p, 201))
  /\ UNCHANGED <<quotes, tx, pend, smtp, now, tick, hist, customers, ui>>

(* ---- getAllQuotes: order by q.stage, q.position asc,                   *)
(*      q.next_chase_at nulls last, q.created_at desc                     *)

\* The stage column is text: `order by q.stage` compares the names as
\* strings. The names in ascending text order:
StageText == <<"follow_up", "lost", "new", "tender", "won">>

RankIn(seq, s) ==
  IF \E n \in 1..Len(seq) : seq[n] = s
  THEN CHOOSE n \in 1..Len(seq) : seq[n] = s
  ELSE 0

\* 1 when a sorts before b on this key, -1 when after, 0 on a tie.
Cmp(x, y) == IF x < y THEN 1 ELSE IF x > y THEN -1 ELSE 0

\* next_chase_at [asc] nulls last
CmpNullsLast(x, y) ==
  IF x = Null /\ y = Null THEN 0
  ELSE IF x = Null THEN -1
  ELSE IF y = Null THEN 1
  ELSE Cmp(x, y)

\* Mutant: created_at ascending.
OrderBeforeCreatedAsc(a, b) ==
  LET k1 == Cmp(RankIn(StageText, a.stage), RankIn(StageText, b.stage))
      k2 == Cmp(a.position, b.position)
      k3 == CmpNullsLast(a.nextChaseAt, b.nextChaseAt)
      k4 == Cmp(a.createdAt, b.createdAt)
  IN  IF k1 # 0 THEN k1 = 1
      ELSE IF k2 # 0 THEN k2 = 1
      ELSE IF k3 # 0 THEN k3 = 1
      ELSE k4 = 1

\* Does row a sort strictly before row b in getAllQuotes' ORDER BY.
OrderBefore(a, b) ==
  LET k1 == Cmp(RankIn(StageText, a.stage), RankIn(StageText, b.stage))
      k2 == Cmp(a.position, b.position)
      k3 == CmpNullsLast(a.nextChaseAt, b.nextChaseAt)
      k4 == Cmp(b.createdAt, a.createdAt)
  IN  IF k1 # 0 THEN k1 = 1
      ELSE IF k2 # 0 THEN k2 = 1
      ELSE IF k3 # 0 THEN k3 = 1
      ELSE k4 = 1

\* Every sequence naming each element of S once.
PermsOf(S) ==
  {s \in [1..Cardinality(S) -> S] : \A i \in S : \E n \in DOMAIN s : s[n] = i}

\* The results getAllQuotes may return on rows v: every row once, in an
\* order the ORDER BY allows (rows that tie on all keys come in any order).
getAllQuotes(v) ==
  {s \in PermsOf({i \in Ids : Exists(v[i])}) :
     \A m, n \in DOMAIN s : m < n => ~OrderBefore(v[s[n]], v[s[m]])}

\* GET /api/quotes
GetQuotesAs(h, p) ==
  /\ Free(p)
  /\ IF ~authMiddleware(h) THEN Unauthorized(h, "get")
     ELSE Start(p, [Caller(h, "get") EXCEPT !.pc = "query"])
  /\ UNCHANGED <<quotes, tx, pend, smtp, now, tick, hist, customers, users, ui>>

GetQuotes(p) == GetQuotesAs(Token, p)

GetQuotesQuery(p, c) ==
  /\ req[p].op = "get" /\ req[p].pc = "query"
  /\ IF StmtFails(c, FALSE)
     THEN Done(p, Answer(p, 500))
     ELSE \E s \in getAllQuotes(View(c)) :
            Done(p, [Answer(p, 200) EXCEPT !.body = View(c), !.order = s])
  /\ UNCHANGED <<quotes, tx, pend, smtp, now, tick, hist, customers, users, ui>>

(* ------------------------------ updateQuote --------------------------- *)

\* const updated = { ...existing, ...patch, updatedAt }
Merge(existing, patch) ==
  [existing EXCEPT
     !.stage = IF patch.stage = "~" THEN @ ELSE patch.stage,
     !.position = IF patch.position = Unset THEN @ ELSE patch.position,
     !.nextChaseAt = IF patch.nextChaseAt = Unset THEN @ ELSE patch.nextChaseAt,
     !.reminderEmail = IF patch.reminderEmail = "~" THEN @ ELSE patch.reminderEmail,
     !.title = IF patch.title = "~" THEN @ ELSE patch.title,
     !.clientName = IF patch.clientName = "~" THEN @ ELSE patch.clientName,
     !.attachmentUrl = IF patch.attachmentUrl = "~" THEN @ ELSE patch.attachmentUrl]

\* updated.id, the $1 of updateQuote's `where id = $1`: the patch's id when
\* it names one ({ ...existing, ...patch }), else the id of the route.
TargetId(id, patch) == IF patch.id = "~" THEN id ELSE patch.id

\* PUT /api/quotes/:id: updateQuote(id, req.body || {})
PutQuoteAs(h, p, id, patch) ==
  /\ Free(p)
  /\ IF ~authMiddleware(h) THEN Unauthorized(h, "put")
     ELSE Start(p, [Caller(h, "put") EXCEPT !.pc = "read", !.id = id,
                                           !.patch = patch])
  /\ UNCHANGED <<quotes, tx, pend, smtp, now, tick, hist, customers, users, ui>>

PutQuote(p, id, patch) == PutQuoteAs(Token, p, id, patch)

\* PATCH /api/quotes/:id/stage: const { stage } = req.body;
\* 400 without a stage, else updateQuote(id, { stage }).
PatchStageAs(h, p, id, body) ==
  /\ Free(p)
  /\ IF ~authMiddleware(h) THEN Unauthorized(h, "patchStage")
     ELSE IF body.stage = "~"
     THEN Reject([NoResp EXCEPT !.status = 400,
                     !.req = [Caller(h, "patchStage") EXCEPT !.id = id,
                                                             !.patch = body]])
     ELSE Start(p, [Caller(h, "patchStage") EXCEPT !.pc = "read", !.id = id,
                               !.patch = [NoPatch EXCEPT !.stage = body.stage],
                               !.body = body])
  /\ UNCHANGED <<quotes, tx, pend, smtp, now, tick, hist, customers, users, ui>>

PatchStage(p, id, body) == PatchStageAs(Token, p, id, body)

\* POST /api/quotes/:id/attachment with an uploaded file (none, a PDF or
\* another type): 400 without a PDF, else getQuoteById(id). The file itself
\* is kept on disk, outside the store.
PostAttachmentAs(h, p, id, file) ==
  /\ Free(p)
  /\ IF ~authMiddleware(h) THEN Unauthorized(h, "attach")
     ELSE IF file # "pdf"
     THEN Reject([NoResp EXCEPT !.status = 400,
                     !.req = [Caller(h, "attach") EXCEPT !.id = id]])
     ELSE Start(p, [Caller(h, "attach") EXCEPT !.pc = "check", !.id = id])
  /\ UNCHANGED <<quotes, tx, pend, smtp, now, tick, hist, customers, users, ui>>

PostAttachment(p, id, file) == PostAttachmentAs(Token, p, id, file)

\* const quote = await getQuoteById(id); 404 when there is none, else
\* updateQuote(id, { attachmentUrl }).
AttachCheck(p, c) ==
  /\ req[p].op = "attach" /\ req[p].pc = "check"
  /\ IF StmtFails(c, FALSE)
     THEN Done(p, Answer(p, 500))
     ELSE IF ~Exists(View(c)[req[p].id])
     THEN Done(p, Answer(p, 404))
     ELSE Goto(p, [req[p] EXCEPT !.pc = "read",
                      !.patch = [NoPatch EXCEPT !.attachmentUrl = "/uploads/f"]])
  /\ UNCHANGED <<quotes, tx, pend, smtp, now, tick, hist, customers, users, ui>>

\* updateQuote without `if (!existing) return null`: an absent id is answered
\* like a stored one.
UpdateQuoteReadNoCheck(p, c) ==
  /\ req[p].op \in {"put", "patchStage", "attach"} /\ req[p].pc = "read"
  /\ IF StmtFails(c, FALSE)
     THEN Done(p, Answer(p, 500))
     ELSE IF ~Exists(View(c)[req[p].id])
     THEN Done(p, Answer(p, 200))
     ELSE Goto(p, [req[p] EXCEPT !.pc = "write", !.row = View(c)[req[p].id]])
  /\ UNCHANGED <<quotes, tx, pend, smtp, now, tick, hist, customers, users, ui>>

\* updateQuote: const existing = await getQuoteById(id); if (!existing) return null
\* (the routes answer 404 on null; the attachment route answers res.json(null)).
UpdateQuoteRead(p, c) ==
  /\ req[p].op \in {"put", "patchStage", "attach"} /\ req[p].pc = "read"
  /\ IF StmtFails(c, FALSE)
     THEN Done(p, Answer(p, 500))
     ELSE IF ~Exists(View(c)[req[p].id])
     THEN Done(p, Answer(p, IF req[p].op = "attach" THEN 200 ELSE 404))
     ELSE Goto(p, [req[p] EXCEPT !.pc = "write", !.row = View(c)[req[p].id]])
  /\ UNCHANGED <<quotes, tx, pend, smtp, now, tick, hist, customers, users, ui>>

\* updateQuote: update quotes set <every column but id and created_at> =
\* updated.* where id = updated.id
UpdateQuoteWrite(p, c) ==
  /\ req[p].op \in {"put", "patchStage", "attach"} /\ req[p].pc = "write"
  /\ LET target  == TargetId(req[p].id, req[p].patch)
         updated == Merge(req[p].row, req[p].patch)
         hit     == target \in Ids /\ Exists(View(c)[target])
         bad     == hit /\ updated.stage = SqlNull
         w       == IF hit
                    THEN [NoWrites EXCEPT ![target] =
                            [updated EXCEPT !.createdAt = View(c)[target].createdAt]]
                    ELSE NoWrites
     IN  /\ hit => ~Blocked(c, {target})
         /\ Write(c, w, bad)
         /\ IF StmtFails(c, bad)
            THEN Done(p, Answer(p, 500))
            ELSE Done(p, [Answer(p, 200) EXCEPT !.row = updated])
         /\ hist' = IF /\ hit /\ ~StmtFails(c, bad)
                       /\ (req[p].patch.nextChaseAt # Unset \/ target # req[p].id)
                    THEN NewOccurrence(target) ELSE hist
  /\ UNCHANGED <<smtp, now, tick, customers, users, ui>>

(* --------------------------- updateQuotePositions --------------------- *)

\* The value of `updates` in a body: kind is "array", "undefined" (the body
\* has no updates) or "object" (any other value); items are the elements of
\* an array.
Updates(kind, items) == [kind |-> kind, items |-> items]

\* Mutant: the route without `|| updates.length === 0`.
PatchPositionsAnyArray(h, p, updates) ==
  /\ Free(p)
  /\ IF ~authMiddleware(h) THEN Unauthorized(h, "reorder")
     ELSE IF updates.kind # "array"
     THEN Reject([NoResp EXCEPT !.status = 400,
                     !.req = [Caller(h, "reorder") EXCEPT !.body = updates]])
     ELSE Start(p, [Caller(h, "reorder") EXCEPT
                      !.pc = IF Len(updates.items) = 0 THEN "commit" ELSE "begin",
                      !.k = 1, !.moves = updates.items, !.pre = quotes,
                      !.body = updates])
  /\ UNCHANGED <<quotes, tx, pend, smtp, now, tick, hist, customers, users, ui>>

\* PATCH /api/quotes/positions with body { updates }:
\* 400 unless updates is a non-empty array, else updateQuotePositions(updates).
PatchPositionsAs(h, p, updates) ==
  /\ Free(p)
  /\ IF ~authMiddleware(h) THEN Unauthorized(h, "reorder")
     ELSE IF updates.kind # "array" \/ Len(updates.items) = 0
     THEN Reject([NoResp EXCEPT !.status = 400,
                     !.req = [Caller(h, "reorder") EXCEPT !.body = updates]])
     ELSE Start(p, [Caller(h, "reorder") EXCEPT !.pc = "begin",
                      !.moves = updates.items, !.pre = quotes,
                      !.body = updates])
  /\ UNCHANGED <<quotes, tx, pend, smtp, now, tick, hist, customers, users, ui>>

\* The same from a logged-in user, with an array.
PatchPositions(p, updates) == PatchPositionsAs(Token, p, Updates("array", updates))

\* await pool.query('BEGIN')
PositionsBegin(p, c) ==
  /\ req[p].op = "reorder" /\ req[p].pc = "begin"
  /\ IF StmtFails(c, FALSE)
     THEN /\ Goto(p, [req[p] EXCEPT !.pc = "rollback"])
          /\ UNCHANGED <<quotes, tx, pend>>
     ELSE /\ Begin(c)
          /\ Goto(p, [req[p] EXCEPT !.pc = "update", !.k = 1])
  /\ UNCHANGED <<smtp, now, tick, hist, customers, users, ui>>

\* Mutant: the update as an upsert, which stores a row for an id no quote has.
PositionsUpdateUpsert(p, c) ==
  /\ req[p].op = "reorder" /\ req[p].pc = "update"
  /\ LET u   == req[p].moves[req[p].k]
         bad == u.stage = SqlNull
         w   == [NoWrites EXCEPT ![u.id] =
                   [View(c)[u.id] EXCEPT !.stage = u.stage,
                                         !.position = u.position]]
     IN  /\ ~Blocked(c, {u.id})
         /\ Write(c, w, bad)
         /\ IF StmtFails(c, bad)
            THEN Goto(p, [req[p] EXCEPT !.pc = "rollback"])
            ELSE IF req[p].k < Len(req[p].moves)
            THEN Goto(p, [req[p] EXCEPT !.k = @ + 1])
            ELSE Goto(p, [req[p] EXCEPT !.pc = "commit"])
  /\ UNCHANGED <<smtp, now, tick, hist, customers, users, ui>>

\* update quotes set position = $1, stage = $2, updated_at = now() where id = $3
PositionsUpdate(p, c) ==
  /\ req[p].op = "reorder" /\ req[p].pc = "update"
  /\ LET u   == req[p].moves[req[p].k]
         hit == Exists(View(c)[u.id])
         bad == hit /\ u.stage = SqlNull
         w   == IF hit
                THEN [NoWrites EXCEPT ![u.id] =
                        [View(c)[u.id] EXCEPT !.stage = u.stage,
                                              !.position = u.position]]
                ELSE NoWrites
     IN  /\ hit => ~Blocked(c, {u.id})
         /\ Write(c, w, bad)
         /\ IF StmtFails(c, bad)
            THEN Goto(p, [req[p] EXCEPT !.pc = "rollback"])
            ELSE IF req[p].k < Len(req[p].moves)
            THEN Goto(p, [req[p] EXCEPT !.k = @ + 1])
            ELSE Goto(p, [req[p] EXCEPT !.pc = "commit"])
  /\ UNCHANGED <<smtp, now, tick, hist, customers, users, ui>>

\* await pool.query('COMMIT')
PositionsCommit(p, c) ==
  /\ req[p].op = "reorder" /\ req[p].pc = "commit"
  /\ Commit(c)
  /\ Goto(p, [req[p] EXCEPT !.pc = "fetch"])
  /\ UNCHANGED <<smtp, now, tick, hist, customers, users, ui>>

\* catch (err) { await pool.query('ROLLBACK'); throw err }, answered 500
PositionsRollback(p, c) ==
  /\ req[p].op = "reorder" /\ req[p].pc = "rollback"
  /\ Rollback(c)
  /\ Done(p, Answer(p, 500))
  /\ UNCHANGED <<smtp, now, tick, hist, customers, users, ui>>

\* const allQuotes = await getAllQuotes(); res.json(allQuotes)
PositionsFetch(p, c) ==
  /\ req[p].op = "reorder" /\ req[p].pc = "fetch"
  /\ IF StmtFails(c, FALSE)
     THEN Done(p, Answer(p, 500))
     ELSE \E s \in getAllQuotes(View(c)) :
            Done(p, [Answer(p, 200) EXCEPT !.body = View(c), !.order = s])
  /\ UNCHANGED <<quotes, tx, pend, smtp, now, tick, hist, customers, users, ui>>

(* ------------------------------ KanbanApp ----------------------------- *)

MaxDrags == 1        \* DropResults the board handles in a run

\* The characters of the titles and client names on the board.
Chars(s) ==
  CASE s = "Roof" -> <<"R", "o", "o", "f">>
    [] s = "Quote" -> <<"Q", "u", "o", "t", "e">>
    [] s = "Client" -> <<"C", "l", "i", "e", "n", "t">>
    [] OTHER -> <<>>

\* A QuoteCard, as far as the board uses it.
Card(i, r) == [id |-> i, stage |-> r.stage, position |-> r.position,
               title |-> r.title, clientName |-> r.clientName]

\* res.data of GET /api/quotes: the rows in the order of the answer.
Cards(body, order) == [n \in 1..Len(order) |-> Card(order[n], body[order[n]])]

\* filteredQuotes: all quotes without a filter (!filter.trim()), else those
\* whose title or client name includes filter.toLowerCase().
Matches(q, filter) ==
  \/ includes(toLowerCase(Chars(q.title)), toLowerCase(filter))
  \/ includes(toLowerCase(Chars(q.clientName)), toLowerCase(filter))
filteredQuotes(cards, filter) ==
  IF Len(trim(filter)) = 0 THEN cards
  ELSE LET Shown(q) == Matches(q, filter) IN SelectSeq(cards, Shown)

\* Array.prototype.sort((a, b) => (a.position || 0) - (b.position || 0)):
\* stable, ascending.
RECURSIVE sortByPosition(_)
sortByPosition(list) ==
  IF Len(list) <= 1 THEN list
  ELSE LET rest == sortByPosition(Tail(list))
           Before(q) == q.position < Head(list).position
           NotBefore(q) == ~Before(q)
       IN  SelectSeq(rest, Before) \o <<Head(list)>> \o SelectSeq(rest, NotBefore)

\* quotesByStage[stage]: the filtered quotes of the stage, by position.
quotesByStage(cards, filter, stage) ==
  LET InStage(q) == q.stage = stage
  IN  sortByPosition(SelectSeq(filteredQuotes(cards, filter), InStage))

\* list.splice(index, 1) and list.splice(index, 0, item), index from 0.
RemoveAt(list, index) == SubSeq(list, 1, index) \o SubSeq(list, index + 2, Len(list))
InsertAt(list, index, item) ==
  SubSeq(list, 1, index) \o <<item>> \o SubSeq(list, index + 1, Len(list))

\* list.forEach((quote, index) => updates.push({ id, position: index + 1, stage }))
Renumber(list, stage) ==
  [n \in 1..Len(list) |-> [id |-> list[n].id, stage |-> stage, position |-> n]]

\* onDragEnd: the move list for a drop on a column at another place.
dragUpdates(cards, filter, result) ==
  LET sourceStage == result.source.droppableId
      destStage   == result.destination.droppableId
      destIndex   == result.destination.index
      srcList     == quotesByStage(cards, filter, sourceStage)
      destList    == quotesByStage(cards, filter, destStage)
      movedQuote  == srcList[result.source.index + 1]
  IN  IF sourceStage = destStage
      THEN Renumber(InsertAt(RemoveAt(destList, result.source.index),
                             destIndex, movedQuote), destStage)
      ELSE Renumber(RemoveAt(srcList, result.source.index), sourceStage)
           \o Renumber(InsertAt(destList, destIndex, movedQuote), destStage)

\* onDragEnd: the optimistic setQuotes: the dragged card gets the new stage
\* and every card named in updates its stage and position.
UpdatesFor(updates, id) == {n \in 1..Len(updates) : updates[n].id = id}
optimistic(cards, updates, result) ==
  [n \in 1..Len(cards) |->
     LET q == IF cards[n].id = result.draggableId
              THEN [cards[n] EXCEPT !.stage = result.destination.droppableId]
              ELSE cards[n]
         u == UpdatesFor(updates, q.id)
     IN  IF u = {} THEN q
         ELSE LET first == CHOOSE m \in u : \A l \in u : m <= l
              IN  [q EXCEPT !.stage = updates[first].stage,
                            !.position = updates[first].position]]

\* The DropResults the drag library can hand over on the board as shown:
\* a shown card, dropped outside, or at an index of a column as shown (in
\* its own column the card itself is not counted).
Sources(cards, filter) ==
  UNION {{[droppableId |-> s, index |-> i] :
            i \in 0..(Len(quotesByStage(cards, filter, s)) - 1)} : s \in StageSet}
Destinations(cards, filter, source) ==
  {NoDest} \cup
  UNION {{[droppableId |-> d, index |-> j] :
            j \in 0..(Len(quotesByStage(cards, filter, d))
                       - IF d = source.droppableId THEN 1 ELSE 0)} : d \in StageSet}
DropResults(cards, filter) ==
  UNION {{[draggableId |->
             quotesByStage(cards, filter, source.droppableId)[source.index + 1].id,
           source |-> source, destination |-> d] :
            d \in Destinations(cards, filter, source)} :
         source \in Sources(cards, filter)}

\* useEffect on mount: fetchQuotes().
Mount(p) ==
  /\ ui.pc = "mount" /\ Free(p)
  /\ Start(p, [Caller(Token, "get") EXCEPT !.pc = "query"])
  /\ ui' = [ui EXCEPT !.pc = "load"]
  /\ UNCHANGED <<quotes, tx, pend, smtp, now, tick, hist, customers, users>>

\* The user types a search term.
SetFilter(filter) ==
  /\ ui.filter # filter
  /\ ui' = [ui EXCEPT !.filter = filter]
  /\ UNCHANGED <<quotes, tx, pend, req, resp, served, smtp, now, tick, hist,
                 customers, users>>

\* onDragEnd(result): returns on a drop outside or at the same place; else
\* computes the move list, sets the quotes optimistically and sends PATCH
\* /api/quotes/positions { updates } with the user's token.
onDragEnd(p, result) ==
  /\ ui.pc = "idle" /\ ui.drags < MaxDrags
  /\ IF result.destination = NoDest \/ result.destination = result.source
     THEN /\ ui' = [ui EXCEPT !.drag = result, !.updates = <<>>, !.drags = @ + 1]
          /\ UNCHANGED <<req, resp, served>>
     ELSE LET updates == dragUpdates(ui.quotes, ui.filter, result)
          IN  /\ Free(p)
              /\ ui' = [ui EXCEPT !.drag = result, !.updates = updates,
                                  !.drags = @ + 1, !.pc = "patch",
                                  !.quotes = optimistic(@, updates, result)]
              /\ Start(p, [Caller(Token, "reorder") EXCEPT !.pc = "begin",
                              !.moves = updates, !.pre = quotes,
                              !.body = Updates("array", updates)])
  /\ UNCHANGED <<quotes, tx, pend, smtp, now, tick, hist, customers, users>>

\* onDragEnd after await updateQuotePositions(updates): fetchQuotes(), in
\* the try block after a 200, in the catch block after an error.
Refresh(p) ==
  /\ ui.pc = "patch" /\ resp.req.op = "reorder" /\ resp.status # 0
  /\ Free(p)
  /\ Start(p, [Caller(Token, "get") EXCEPT !.pc = "query"])
  /\ ui' = [ui EXCEPT !.pc = IF resp.status = 200 THEN "fetch" ELSE "refetch"]
  /\ UNCHANGED <<quotes, tx, pend, smtp, now, tick, hist, customers, users>>

\* setQuotes(data) with the answer of fetchQuotes. An error of the fetch in
\* the try block leads to the fetch of the catch block; an error on mount
\* or in the catch block leaves the quotes as they are.
SetQuotes(p) ==
  /\ ui.pc \in {"load", "fetch", "refetch"}
  /\ resp.req.op = "get" /\ resp.status # 0
  /\ IF resp.status = 200
     THEN /\ ui' = [ui EXCEPT !.pc = "idle", !.quotes = Cards(resp.body, resp.order)]
          /\ resp' = NoResp /\ UNCHANGED <<req, served>>
     ELSE IF ui.pc = "fetch"
     THEN /\ Free(p)
          /\ Start(p, [Caller(Token, "get") EXCEPT !.pc = "query"])
          /\ ui' = [ui EXCEPT !.pc = "refetch"]
     ELSE /\ ui' = [ui EXCEPT !.pc = "idle"]
          /\ resp' = NoResp /\ UNCHANGED <<req, served>>
  /\ UNCHANGED <<quotes, tx, pend, smtp, now, tick, hist, customers, users>>

(* --------------------------- reminder engine -------------------------- *)

Ticks == {1, 2}                  \* cron callbacks in flight at once

\* One run of the cron callback: now = new Date() (tnow), dueQuotes (due,
\* the ids in the order returned) and the loop index.
NoTick == [pc |-> "idle", tnow |-> 0, due |-> <<>>, idx |-> 0]

\* Mutant: the chase time must be strictly before the clock.
IsDueStrict(r, t) ==
  r.reminderEmail # NoMail /\ r.nextChaseAt # Null /\ r.nextChaseAt < t

\* where reminder_email is not null and next_chase_at is not null
\*   and next_chase_at <= $1
IsDue(r, t) ==
  r.reminderEmail # NoMail /\ r.nextChaseAt # Null /\ r.nextChaseAt <= t

\* getDueReminders(now): the matching rows, in any order (no ORDER BY).
getDueReminders(v, t) == PermsOf({i \in Ids : Exists(v[i]) /\ IsDue(v[i], t)})

\* Mutant: the update without `next_chase_at = null`.
markReminderSentKeepsDue(r, at) == [r EXCEPT !.lastChasedAt = at]

\* markReminderSent(id, at): set last_chased_at = $2, next_chase_at = null
markReminderSent(r, at) == [r EXCEPT !.lastChasedAt = at, !.nextChaseAt = Null]

\* sendReminderEmail(quote, transporter): without a transporter the message
\* is logged and the promise resolves; else transporter.sendMail, which
\* resolves (delivered) or rejects (failed).
sendReminderEmail(transporter, delivered) == ~transporter \/ delivered

\* The loop goes on to the next due quote, or the callback returns.
NextQuote(t) ==
  IF tick[t].idx < Len(tick[t].due)
  THEN [tick[t] EXCEPT !.pc = "send", !.idx = @ + 1]
  ELSE NoTick

\* cron.schedule('* * * * *', ...): a minute passes and the callback starts
\* (const now = new Date()), whether or not an earlier run has returned.
Minute ==
  /\ now < MaxTime
  /\ now' = now + 1
  /\ IF \E t \in Ticks : tick[t].pc = "idle"
     THEN LET t == CHOOSE u \in Ticks :
                     /\ tick[u].pc = "idle"
                     /\ \A w \in Ticks : w < u => tick[w].pc # "idle"
          IN  tick' = [tick EXCEPT ![t] = [NoTick EXCEPT !.pc = "query",
                                                         !.tnow = now']]
     ELSE UNCHANGED tick
  /\ resp' = NoResp
  /\ UNCHANGED <<quotes, tx, pend, req, served, smtp, hist, customers, users, ui>>

\* const dueQuotes = await getDueReminders(now); a failure ends the callback
\* (outer catch).
TickQuery(t, c, ok) ==
  /\ tick[t].pc = "query"
  /\ IF StmtFails(c, ~ok)
     THEN /\ tick' = [tick EXCEPT ![t] = NoTick]
          /\ hist' = [hist EXCEPT !.answered = FALSE]
     ELSE /\ \E d \in getDueReminders(View(c), tick[t].tnow) :
               tick' = [tick EXCEPT ![t] =
                          IF Len(d) = 0 THEN NoTick
                          ELSE [tick[t] EXCEPT !.pc = "send", !.due = d, !.idx = 1]]
          /\ hist' = [hist EXCEPT !.answered = TRUE]
  /\ resp' = NoResp
  /\ UNCHANGED <<quotes, tx, pend, req, served, smtp, now, customers, users, ui>>

\* The send without the try/catch around it: a rejection ends the callback.
TickSendNoCatch(t, delivered) ==
  /\ tick[t].pc = "send"
  /\ LET q == tick[t].due[tick[t].idx]
     IN  IF sendReminderEmail(smtp, delivered)
         THEN /\ tick' = [tick EXCEPT ![t].pc = "mark"]
              /\ hist' = [hist EXCEPT !.tries[q] = @ + 1, !.sends[q] = @ + 1]
         ELSE /\ tick' = [tick EXCEPT ![t] = NoTick]
              /\ hist' = [hist EXCEPT !.tries[q] = @ + 1, !.fails[q] = @ + 1]
  /\ resp' = NoResp
  /\ UNCHANGED <<quotes, tx, pend, req, served, smtp, now, customers, users, ui>>

\* await sendReminderEmail(quote, transporter); a rejection is caught and
\* logged, and the loop goes on.
TickSend(t, delivered) ==
  /\ tick[t].pc = "send"
  /\ LET q == tick[t].due[tick[t].idx]
     IN  IF sendReminderEmail(smtp, delivered)
         THEN /\ tick' = [tick EXCEPT ![t].pc = "mark"]
              /\ hist' = [hist EXCEPT !.tries[q] = @ + 1, !.sends[q] = @ + 1]
         ELSE /\ tick' = [tick EXCEPT ![t] = NextQuote(t)]
              /\ hist' = [hist EXCEPT !.tries[q] = @ + 1, !.fails[q] = @ + 1]
  /\ resp' = NoResp
  /\ UNCHANGED <<quotes, tx, pend, req, served, smtp, now, customers, users, ui>>

\* The mark as an update that also empties reminder_email.
TickMarkClearsAddress(t, c, ok) ==
  /\ tick[t].pc = "mark"
  /\ LET q   == tick[t].due[tick[t].idx]
         hit == Exists(View(c)[q])
         w   == IF hit
                THEN [NoWrites EXCEPT ![q] =
                        [markReminderSent(View(c)[q], now) EXCEPT
                           !.reminderEmail = NoMail]]
                ELSE NoWrites
     IN  /\ hit => ~Blocked(c, {q})
         /\ Write(c, w, ~ok)
  /\ tick' = [tick EXCEPT ![t] = NextQuote(t)]
  /\ resp' = NoResp
  /\ UNCHANGED <<req, served, smtp, now, hist, customers, users, ui>>

\* await markReminderSent(quote.id, new Date()); a failure is caught and
\* logged, and the loop goes on.
TickMark(t, c, ok) ==
  /\ tick[t].pc = "mark"
  /\ LET q   == tick[t].due[tick[t].idx]
         hit == Exists(View(c)[q])
         w   == IF hit
                THEN [NoWrites EXCEPT ![q] = markReminderSent(View(c)[q], now)]
                ELSE NoWrites
     IN  /\ hit => ~Blocked(c, {q})
         /\ Write(c, w, ~ok)
  /\ tick' = [tick EXCEPT ![t] = NextQuote(t)]
  /\ resp' = NoResp
  /\ UNCHANGED <<req, served, smtp, now, hist, customers, users, ui>>

(* --------------------------- specification ---------------------------- *)

NoPayload == NoPatch

Init ==
  /\ quotes = [i \in Ids |-> NoRow]
  /\ tx = [c \in Conns |-> "none"]
  /\ pend = [c \in Conns |-> NoWrites]
  /\ req = [p \in Procs |-> Idle]
  /\ resp = NoResp
  /\ served = 0
  /\ smtp = TRUE
  /\ now = 0
  /\ tick = [t \in Ticks |-> NoTick]
  /\ hist = NoHist
  /\ customers = {}
  /\ users = {Admin}
  /\ ui = NoUi

\* The request bodies the specifications draw from.
BodyStages == {"new", "won"}
Moves == [id : {"A", "B"}, stage : BodyStages \cup {SqlNull}, position : 1..MaxPos]
MoveLists == UNION {[1..n -> Moves] : n \in 0..MaxMoves}
StorePatches ==
  {[NoPatch EXCEPT !.stage = s] : s \in BodyStages} \cup
  {[NoPatch EXCEPT !.position = n] : n \in 1..MaxPos}

\* Bodies of POST /api/quotes: with or without a stage; with a title and a
\* client name, or with one of the two missing.
CreatePayloads ==
  {[NoPayload EXCEPT !.stage = s, !.title = "Roof", !.clientName = "Acme"] :
     s \in {"~", "won"}} \cup
  {[NoPayload EXCEPT !.title = "Roof"], [NoPayload EXCEPT !.clientName = "Acme"]}

\* The board: the single-quote routes and the list, two requests in flight,
\* from an empty table. Each statement runs on some pooled connection.
Next ==
  \/ served < MaxReq /\ \E p \in Procs, id \in Ids, b \in CreatePayloads :
        PostQuote(p, id, b)
  \/ served < MaxReq /\ \E p \in Procs : GetQuotes(p)
  \/ served < MaxReq /\ \E p \in Procs, id \in Ids, b \in StorePatches :
        PutQuote(p, id, b)
  \/ served < MaxReq /\ \E p \in Procs, id \in Ids, s \in {"won", "~"} :
        PatchStage(p, id, [NoPatch EXCEPT !.stage = s])
  \/ \E p \in Procs, c \in Conns : InsertQuoteMax(p, c)
  \/ \E p \in Procs, c \in Conns : InsertQuoteInsert(p, c)
  \/ \E p \in Procs, c \in Conns : PostQuoteFetch(p, c)
  \/ \E p \in Procs, c \in Conns : GetQuotesQuery(p, c)
  \/ \E p \in Procs, c \in Conns : UpdateQuoteRead(p, c)
  \/ \E p \in Procs, c \in Conns : UpdateQuoteWrite(p, c)

Spec == Init /\ [][Next]_vars

(* ---- reorders in flight, on a board of two quotes ---- *)

\* The board after two POST /api/quotes with no stage: A and B in "new".
BoardAB ==
  [NoRows EXCEPT !["A"] = [NoRow EXCEPT !.stage = "new", !.position = 1],
                 !["B"] = [NoRow EXCEPT !.stage = "new", !.position = 2]]

InitReorder ==
  /\ quotes = BoardAB
  /\ tx = [c \in Conns |-> "none"]
  /\ pend = [c \in Conns |-> NoWrites]
  /\ req = [p \in Procs |-> Idle]
  /\ resp = NoResp
  /\ served = 0
  /\ smtp = TRUE
  /\ now = 0
  /\ tick = [t \in Ticks |-> NoTick]
  /\ hist = NoHist
  /\ customers = {}
  /\ users = {Admin}
  /\ ui = NoUi

\* The bodies drawn: moves to "won" or with a null stage, no quote twice.
ReorderBodies ==
  {u \in MoveLists : /\ \A m \in DOMAIN u : u[m].stage # "new"
                     /\ \A m, n \in DOMAIN u : m # n => u[m].id # u[n].id}

NextReorder ==
  \/ served < MaxReorderReq /\ \E p \in Procs, u \in ReorderBodies :
        PatchPositions(p, u)
  \/ served < MaxReorderReq /\ \E p \in Procs : GetQuotes(p)
  \/ \E p \in Procs, c \in Conns : GetQuotesQuery(p, c)
  \/ \E p \in Procs, c \in Conns : PositionsBegin(p, c)
  \/ \E p \in Procs, c \in Conns : PositionsUpdate(p, c)
  \/ \E p \in Procs, c \in Conns : PositionsCommit(p, c)
  \/ \E p \in Procs, c \in Conns : PositionsRollback(p, c)
  \/ \E p \in Procs, c \in Conns : PositionsFetch(p, c)

SpecReorder == InitReorder /\ [][NextReorder]_vars

(* ---- edits of single quotes, on a board of two quotes ---- *)

MaxEditReq == 2

\* Bodies of PUT /api/quotes/:id that name neither stage nor position: a new
\* title, alone or beside the id of quote B.
EditPatches ==
  {[NoPatch EXCEPT !.title = "Roof"],
   [NoPatch EXCEPT !.title = "Roof", !.id = "B"]}

\* Bodies of PATCH /api/quotes/:id/stage: { stage, position } as the board
\* sends it after a drag, { stage } alone with one of the board's stages or
\* with another text, and a body without a stage.
StageBodies ==
  {[NoPatch EXCEPT !.stage = "won", !.position = 1],
   [NoPatch EXCEPT !.stage = "won"],
   [NoPatch EXCEPT !.stage = "archived"],
   NoPatch}

\* The files of POST /api/quotes/:id/attachment.
Files == {"none", "pdf", "text"}

InitEdit ==
  /\ quotes = BoardAB
  /\ tx = [c \in Conns |-> "none"]
  /\ pend = [c \in Conns |-> NoWrites]
  /\ req = [p \in Procs |-> Idle]
  /\ resp = NoResp
  /\ served = 0
  /\ smtp = TRUE
  /\ now = 0
  /\ tick = [t \in Ticks |-> NoTick]
  /\ hist = NoHist
  /\ customers = {}
  /\ users = {Admin}
  /\ ui = NoUi

NextEdit ==
  \/ served < MaxEditReq /\ \E p \in Procs, id \in Ids, b \in EditPatches :
        PutQuote(p, id, b)
  \/ served < MaxEditReq /\ \E p \in Procs, id \in Ids, b \in StageBodies :
        PatchStage(p, id, b)
  \/ served < MaxEditReq /\ \E p \in Procs, id \in Ids, f \in Files :
        PostAttachment(p, id, f)
  \/ \E p \in Procs, c \in Conns : AttachCheck(p, c)
  \/ \E p \in Procs, c \in Conns : UpdateQuoteRead(p, c)
  \/ \E p \in Procs, c \in Conns : UpdateQuoteWrite(p, c)

SpecEdit == InitEdit /\ [][NextEdit]_vars

(* ---- the reminder engine beside the requests that set reminders ---- *)

\* The board after two POST /api/quotes with a reminder address: A to be
\* chased at minute 1 and B at the last minute of the run.
BoardReminders ==
  [NoRows EXCEPT
     !["A"] = [NoRow EXCEPT !.stage = "new", !.position = 1,
                            !.reminderEmail = "a@x.com", !.nextChaseAt = 1],
     !["B"] = [NoRow EXCEPT !.stage = "new", !.position = 2,
                            !.reminderEmail = "b@x.com", !.nextChaseAt = MaxTime]]

InitReminder ==
  /\ quotes = BoardReminders
  /\ tx = [c \in Conns |-> "none"]
  /\ pend = [c \in Conns |-> NoWrites]
  /\ req = [p \in Procs |-> Idle]
  /\ resp = NoResp
  /\ served = 0
  /\ smtp \in BOOLEAN
  /\ now = 0
  /\ tick = [t \in Ticks |-> NoTick]
  /\ hist = NoHist
  /\ customers = {}
  /\ users = {Admin}
  /\ ui = NoUi

\* Edits set a chase time, or name another field only.
ReminderPatches ==
  {[NoPatch EXCEPT !.nextChaseAt = 1], [NoPatch EXCEPT !.position = 1]}

NextReminder ==
  \/ served < MaxReminderReq /\ \E p \in Procs, id \in {"A"}, b \in ReminderPatches :
        PutQuote(p, id, b)
  \/ \E p \in Procs, c \in Conns : UpdateQuoteRead(p, c)
  \/ \E p \in Procs, c \in Conns : UpdateQuoteWrite(p, c)
  \/ Minute
  \/ \E t \in Ticks, c \in Conns, ok \in BOOLEAN : TickQuery(t, c, ok)
  \/ \E t \in Ticks, delivered \in BOOLEAN : TickSend(t, delivered)
  \/ \E t \in Ticks, c \in Conns, ok \in BOOLEAN : TickMark(t, c, ok)

SpecReminder == InitReminder /\ [][NextReminder]_vars

(* ---- every quote route, with and without a valid token ---- *)

MaxAuthReq == 2      \* requests a run of this specification receives

\* Authorization headers: none, another scheme, a Bearer token too short to
\* be a JWT, one not signed with JWT_SECRET, an expired one, a valid one.
Headers ==
  {NoHeader,
   [Token EXCEPT !.scheme = "Basic"],
   [Token EXCEPT !.len = 5, !.signed = FALSE],
   [Token EXCEPT !.signed = FALSE],
   [Token EXCEPT !.expired = TRUE],
   Token}

\* The updates of PATCH /api/quotes/positions: absent, not an array, an empty
\* array, one move of A, one move of C (which no quote has), one move with
\* a null stage.
StoreUpdates ==
  {Updates("undefined", <<>>), Updates("object", <<>>), Updates("array", <<>>),
   Updates("array", <<[id |-> "A", stage |-> "won", position |-> 1]>>),
   Updates("array", <<[id |-> "C", stage |-> "won", position |-> 1]>>),
   Updates("array", <<[id |-> "A", stage |-> SqlNull, position |-> 1]>>)}

\* The statements of the handlers in flight.
HandlerSteps ==
  \/ \E p \in Procs, c \in Conns : InsertQuoteMax(p, c)
  \/ \E p \in Procs, c \in Conns : InsertQuoteInsert(p, c)
  \/ \E p \in Procs, c \in Conns : PostQuoteFetch(p, c)
  \/ \E p \in Procs, c \in Conns : GetQuotesQuery(p, c)
  \/ \E p \in Procs, c \in Conns : AttachCheck(p, c)
  \/ \E p \in Procs, c \in Conns : UpdateQuoteRead(p, c)
  \/ \E p \in Procs, c \in Conns : UpdateQuoteWrite(p, c)
  \/ \E p \in Procs, c \in Conns : PositionsBegin(p, c)
  \/ \E p \in Procs, c \in Conns : PositionsUpdate(p, c)
  \/ \E p \in Procs, c \in Conns : PositionsCommit(p, c)
  \/ \E p \in Procs, c \in Conns : PositionsRollback(p, c)
  \/ \E p \in Procs, c \in Conns : PositionsFetch(p, c)

NextAuth ==
  \/ served < MaxAuthReq /\ \E h \in Headers, p \in Procs, id \in Ids :
        PostQuoteAs(h, p, id, [NoPayload EXCEPT !.title = "Roof",
                                                !.clientName = "Acme"])
  \/ served < MaxAuthReq /\ \E h \in Headers, p \in Procs : GetQuotesAs(h, p)
  \/ served < MaxAuthReq /\ \E h \in Headers, p \in Procs :
        PutQuoteAs(h, p, "A", [NoPatch EXCEPT !.title = "Roof"])
  \/ served < MaxAuthReq /\ \E h \in Headers, p \in Procs,
                               b \in {NoPatch, [NoPatch EXCEPT !.stage = "won"]} :
        PatchStageAs(h, p, "A", b)
  \/ served < MaxAuthReq /\ \E h \in Headers, p \in Procs, f \in {"none", "pdf"} :
        PostAttachmentAs(h, p, "A", f)
  \/ served < MaxAuthReq /\ \E h \in Headers, p \in Procs, u \in StoreUpdates :
        PatchPositionsAs(h, p, u)
  \/ HandlerSteps

SpecAuth == InitReorder /\ [][NextAuth]_vars

(* ---- every operation on the table, from logged-in users ---- *)

MaxStoreReq == 1     \* requests a run of this specification receives
MaxStoreTime == 1    \* minutes of a run of this specification

\* Bodies of PUT /api/quotes/:id: a title, alone or beside an id field.
StorePuts ==
  {[NoPatch EXCEPT !.title = "Roof"],
   [NoPatch EXCEPT !.title = "Roof", !.id = "B"],
   [NoPatch EXCEPT !.title = "Roof", !.id = "C"]}

\* The board after two POST /api/quotes: A with a reminder address, to be
\* chased at minute 1, and B without a reminder.
BoardStore ==
  [NoRows EXCEPT
     !["A"] = [NoRow EXCEPT !.stage = "new", !.position = 1,
                            !.reminderEmail = "a@x.com", !.nextChaseAt = 1],
     !["B"] = [NoRow EXCEPT !.stage = "new", !.position = 2]]

InitStore ==
  /\ quotes = BoardStore
  /\ tx = [c \in Conns |-> "none"]
  /\ pend = [c \in Conns |-> NoWrites]
  /\ req = [p \in Procs |-> Idle]
  /\ resp = NoResp
  /\ served = 0
  /\ smtp = TRUE
  /\ now = 0
  /\ tick = [t \in Ticks |-> NoTick]
  /\ hist = NoHist
  /\ customers = {}
  /\ users = {Admin}
  /\ ui = NoUi

\* No request is in flight: in this specification the requests arrive one
\* after another, beside the reminder engine.
Quiet == served < MaxStoreReq /\ \A q \in Procs : req[q].op = "idle"

NextStore ==
  \/ Quiet /\ \E p \in Procs, id \in Ids :
        PostQuote(p, id, [NoPayload EXCEPT !.title = "Roof",
                                           !.clientName = "Acme"])
  \/ Quiet /\ \E p \in Procs, id \in {"A", "C"}, b \in StorePuts :
        PutQuote(p, id, b)
  \/ Quiet /\ \E p \in Procs, id \in {"A", "C"} :
        PatchStage(p, id, [NoPatch EXCEPT !.stage = "won"])
  \/ Quiet /\ \E p \in Procs, id \in {"A", "C"} :
        PostAttachment(p, id, "pdf")
  \/ Quiet /\ \E p \in Procs, u \in StoreUpdates :
        PatchPositionsAs(Token, p, u)
  \/ Quiet /\ \E p \in Procs : GetQuotes(p)
  \/ HandlerSteps
  \/ now < MaxStoreTime /\ Minute
  \/ \E t \in Ticks, c \in Conns, ok \in BOOLEAN : TickQuery(t, c, ok)
  \/ \E t \in Ticks, delivered \in BOOLEAN : TickSend(t, delivered)
  \/ \E t \in Ticks, c \in Conns, ok \in BOOLEAN : TickMark(t, c, ok)

SpecStore == InitStore /\ [][NextStore]_vars

(* ---- customers, found or created by two routes ---- *)

MaxCustomerReq == 2  \* requests a run of this specification receives

\* The names a request carries: none, blank, and one company in three
\* spellings.
CustomerNames ==
  LET Acme == <<"A", "c", "m", "e">>
  IN  {NoName, <<" ">>, Acme, toLowerCase(Acme), Acme \o <<" ">>}

\* From an empty database, the two routes that call findOrCreateCustomer,
\* two requests in flight; POST /api/quotes goes on to insert its quote.
NextCustomers ==
  \/ served < MaxCustomerReq /\ \E p \in Procs, n \in CustomerNames :
        PostCustomer(p, n)
  \/ served < MaxCustomerReq /\ \E p \in Procs, id \in Ids, n \in CustomerNames \cup {<<>>} :
        PostQuote(p, id, [NoPatch EXCEPT !.title = "Roof", !.customerName = n])
  \/ \E p \in Procs : FindCustomer(p)
  \/ \E p \in Procs : InsertCustomer(p)
  \/ \E p \in Procs, c \in Conns : InsertQuoteMax(p, c)
  \/ \E p \in Procs, c \in Conns : InsertQuoteInsert(p, c)
  \/ \E p \in Procs, c \in Conns : PostQuoteFetch(p, c)

SpecCustomers == Init /\ [][NextCustomers]_vars

(* ---- registrations ---- *)

MaxRegisterReq == 3  \* requests a run of this specification receives

\* Request bodies: one name in three spellings, the name of the start-up
\* user, a name too short; a password that passes and one without a digit.
RegisterBodies ==
  LET Bob == <<"B", "o", "b">>
      Passw0rd == <<"P", "a", "s", "s", "w", "0", "r", "d">>
  IN  {[username |-> u, password |-> pw] :
         u \in {Bob, toLowerCase(Bob), <<" ">> \o Bob, Admin, <<"b", "o">>},
         pw \in {Passw0rd, toLowerCase(Passw0rd) \o <<"s">>}}

\* Registrations, two in flight, on a database that holds the start-up user.
NextRegister ==
  \/ served < MaxRegisterReq /\ \E p \in Procs, b \in RegisterBodies :
        PostRegister(p, b)
  \/ \E p \in Procs : RegisterFind(p)
  \/ \E p \in Procs : RegisterCreate(p)

SpecRegister == Init /\ [][NextRegister]_vars

(* ---- the board in the browser, one drag ---- *)

\* Boards of three quotes, each in column new or won and numbered from 1
\* within its column in the order A, B, C; A is titled Roof, B and C Roof or
\* Quote.
RankInStage(stageOf, i) ==
  Cardinality({j \in Ids : stageOf[j] = stageOf[i] /\ RankIn(IdSeq, j) <= RankIn(IdSeq, i)})
Boards ==
  {[i \in Ids |-> [NoRow EXCEPT !.stage = stageOf[i], !.title = titleOf[i],
                                !.position = RankInStage(stageOf, i)]] :
     stageOf \in [Ids -> {"new", "won"}],
     titleOf \in {t \in [Ids -> {"Roof", "Quote"}] : t["A"] = "Roof"}}

\* Search terms: none, a blank, a word of some titles in another case, a
\* letter of every title.
Filters == {<<>>, <<" ">>, <<"r", "O", "O", "F">>, <<"o">>}

InitBoard ==
  /\ quotes \in Boards
  /\ tx = [c \in Conns |-> "none"]
  /\ pend = [c \in Conns |-> NoWrites]
  /\ req = [p \in Procs |-> Idle]
  /\ resp = NoResp
  /\ served = 0
  /\ smtp = TRUE
  /\ now = 0
  /\ tick = [t \in Ticks |-> NoTick]
  /\ hist = NoHist
  /\ customers = {}
  /\ users = {Admin}
  /\ ui = NoUi

\* The board mounts, the user types search terms and drags a card; the
\* server handles the requests this makes. No statement of a run fails, so
\* the reorder never reaches its rollback.
NextBoard ==
  \/ \E p \in Procs : Mount(p)
  \/ \E f \in Filters : SetFilter(f)
  \/ ui.pc = "idle" /\ \E p \in Procs, result \in DropResults(ui.quotes, ui.filter) :
        onDragEnd(p, result)
  \/ \E p \in Procs : Refresh(p)
  \/ \E p \in Procs : SetQuotes(p)
  \/ \E p \in Procs, c \in Conns : GetQuotesQuery(p, c)
  \/ \E p \in Procs, c \in Conns : PositionsBegin(p, c)
  \/ \E p \in Procs, c \in Conns : PositionsUpdate(p, c)
  \/ \E p \in Procs, c \in Conns : PositionsCommit(p, c)
  \/ \E p \in Procs, c \in Conns : PositionsFetch(p, c)

SpecBoard == InitBoard /\ [][NextBoard]_vars

(* ---- the reminder engine alone, ticking fairly ---- *)

\* No request edits a quote, and the store answers every statement of the
\* engine; a send is delivered or rejected.
NextReminderFair ==
  \/ Minute
  \/ \E t \in Ticks, c \in Conns : TickQuery(t, c, TRUE)
  \/ \E t \in Ticks, delivered \in BOOLEAN : TickSend(t, delivered)
  \/ \E t \in Ticks, c \in Conns : TickMark(t, c, TRUE)

\* cron fires every minute and every awaited promise of a callback settles.
FairTicks ==
  /\ WF_vars(Minute)
  /\ \A t \in Ticks :
       /\ WF_vars(\E c \in Conns : TickQuery(t, c, TRUE))
       /\ WF_vars(\E delivered \in BOOLEAN : TickSend(t, delivered))
       /\ WF_vars(\E c \in Conns : TickMark(t, c, TRUE))

SpecReminderFair == InitReminder /\ [][NextReminderFair]_vars /\ FairTicks

(* ---- the list, on the tables the board can hold ---- *)

MaxListReq == 1    \* requests a run of the list specification receives

\* Rows as create, updateQuote and updateQuotePositions leave them: any of
\* the board's stages, a position, a chase time or none, a creation time.
ListRows ==
  {[NoRow EXCEPT !.stage = s, !.position = n, !.nextChaseAt = a,
                 !.createdAt = t] :
     s \in StageSet, n \in 1..MaxPos, a \in {Null, 1}, t \in 0..1}

\* Ids are interchangeable in a list: the tables are taken with their rows
\* in one order of ids (no row last).
RowKey(r) ==
  IF ~Exists(r) THEN 0
  ELSE 1 + (IF r.nextChaseAt = Null THEN 0 ELSE 1) + 2 * r.createdAt
         + 4 * r.position + 4 * (MaxPos + 1) * RankIn(STAGES, r.stage)

InitList ==
  /\ quotes \in [Ids -> ListRows \cup {NoRow}]
  /\ \A m, n \in 1..Len(IdSeq) :
       m < n => RowKey(quotes[IdSeq[m]]) >= RowKey(quotes[IdSeq[n]])
  /\ tx = [c \in Conns |-> "none"]
  /\ pend = [c \in Conns |-> NoWrites]
  /\ req = [p \in Procs |-> Idle]
  /\ resp = NoResp
  /\ served = 0
  /\ smtp = TRUE
  /\ now = 0
  /\ tick = [t \in Ticks |-> NoTick]
  /\ hist = NoHist
  /\ customers = {}
  /\ users = {Admin}
  /\ ui = NoUi

NextList ==
  \/ served < MaxListReq /\ \E p \in Procs : GetQuotes(p)
  \/ \E p \in Procs, c \in Conns : GetQuotesQuery(p, c)

SpecList == InitList /\ [][NextList]_vars
(* ====================================================================== *)
(*                               The claims                               *)
(* ====================================================================== *)

\* No two quotes of one stage have the same position.
PositionsDistinct(v) ==
  \A i, j \in Ids :
    (i # j /\ Exists(v[i]) /\ Exists(v[j]) /\ v[i].stage = v[j].stage)
      => v[i].position # v[j].position

SameStagePos(a, b) == a.stage = b.stage /\ a.position = b.position

\* The table a move list asks for: each move's stage and position on the
\* quote it names, in order.
RECURSIVE ApplyMoves(_, _)
ApplyMoves(v, moves) ==
  IF Len(moves) = 0 THEN v
  ELSE LET u == Head(moves)
       IN  ApplyMoves(IF Exists(v[u.id])
                      THEN [v EXCEPT ![u.id].stage = u.stage,
                                     ![u.id].position = u.position]
                      ELSE v,
                      Tail(moves))

Named(moves) == {moves[m].id : m \in DOMAIN moves}

\* C1: after a reorder answered 200, within every stage the quotes have
\* pairwise distinct positions.
C1_DistinctAfterReorder ==
  (resp.req.op = "reorder" /\ resp.status = 200) => PositionsDistinct(quotes)

\* C2: a reorder call, run alone, one of whose writes failed (it is answered
\* 500) leaves every quote it names with the stage and position it had
\* before the call.
C2_FailedReorderInvisible ==
  (resp.req.op = "reorder" /\ resp.status = 500 /\ served = 1)
    => \A i \in Named(resp.req.moves) : SameStagePos(quotes[i], resp.req.pre[i])

\* C6: what GET /api/quotes returns while a reorder call is in flight shows,
\* for the quotes the call names, either none of its moves or all of them.
C6_ReadSeesNoneOrAll ==
  (resp.req.op = "get" /\ resp.status = 200) =>
    \A p \in Procs :
      req[p].op = "reorder" =>
        \/ \A i \in Named(req[p].moves) : SameStagePos(resp.body[i], req[p].pre[i])
        \/ \A i \in Named(req[p].moves) :
             SameStagePos(resp.body[i], ApplyMoves(req[p].pre, req[p].moves)[i])

\* C7: of two reorder calls on the board A, B, when one has committed (it
\* is about to load its answer) and the other has just been answered: if
\* both succeeded the table is what the two move lists give run one after
\* the other in one of the two orders; if the other failed, the table is
\* what the committed call's move list alone gives.
C7_TwoReordersSerial ==
  \A p \in Procs :
    (req[p].op = "reorder" /\ req[p].pc = "fetch" /\ resp.req.op = "reorder") =>
      LET x == req[p].moves
          y == resp.req.moves
      IN  /\ resp.status = 200 =>
               \/ \A i \in Ids : SameStagePos(quotes[i],
                                   ApplyMoves(ApplyMoves(BoardAB, x), y)[i])
               \/ \A i \in Ids : SameStagePos(quotes[i],
                                   ApplyMoves(ApplyMoves(BoardAB, y), x)[i])
          /\ resp.status = 500 =>
               \A i \in Ids : SameStagePos(quotes[i], ApplyMoves(BoardAB, x)[i])

\* C8: in every state of the board, no two quotes of one stage have the
\* same position.
C8_PositionsAlwaysDistinct == PositionsDistinct(quotes)
\* The largest position among the quotes of a stage, 0 when it has none.
LargestIn(v, stage) ==
  IF \E i \in Ids : v[i].stage = stage
  THEN CHOOSE n \in {v[i].position : i \in {j \in Ids : v[j].stage = stage}} :
         \A i \in Ids : v[i].stage = stage => v[i].position <= n
  ELSE 0

TargetStage(payload) == IF payload.stage = "~" THEN "new" ELSE payload.stage

\* C9: the step in which create stores its quote puts it in the target
\* stage (new when the body names none) at position 1 + the largest
\* position of the quotes already in that stage (1 when it has none), and
\* changes no other quote.
C9_CreateAppendsToStage ==
  [][\A p \in Procs :
       (req[p].op = "create" /\ req[p].pc = "insert" /\ req'[p].pc = "fetch") =>
          /\ quotes'[req[p].id].stage = TargetStage(req[p].patch)
          /\ quotes'[req[p].id].position =
               1 + LargestIn(quotes, TargetStage(req[p].patch))
          /\ \A j \in Ids \ {req[p].id} : quotes'[j] = quotes[j]]_vars

(* ---- the reminder engine ---- *)

\* The quote a callback's loop stands on.
Current(t) == tick[t].due[tick[t].idx]

\* C3: when a callback has sent a quote's reminder and goes on from it, the
\* quote's nextChaseAt is null; and a send is attempted for a quote only
\* when no send for the chase time now in place has succeeded.
C3_OneSendThenQuiet ==
  [][/\ \A t \in Ticks :
          (tick[t].pc = "mark" /\ tick'[t].pc # "mark") =>
             quotes'[Current(t)].nextChaseAt = Null
     /\ \A q \in Ids :
          hist'.tries[q] > hist.tries[q] => hist.sends[q] = 0]_vars

C5_NeverResent == \A q \in Ids : hist.sends[q] <= 1

(* ---- the list ---- *)

\* A chase time as a sort key with null after every time.
ChaseKey(r) == IF r.nextChaseAt = Null THEN MaxTime + 2 ELSE r.nextChaseAt

\* a is not after b by (rank of stage, position ascending, chase time
\* ascending with null last, creation time descending).
NotAfter(a, b, rank) ==
  \/ rank[a.stage] < rank[b.stage]
  \/ /\ rank[a.stage] = rank[b.stage]
     /\ \/ a.position < b.position
        \/ /\ a.position = b.position
           /\ \/ ChaseKey(a) < ChaseKey(b)
              \/ ChaseKey(a) = ChaseKey(b) /\ a.createdAt >= b.createdAt

\* The list answered holds every quote of the table exactly once.
EveryQuoteOnce(r) ==
  /\ \A i \in Ids : Exists(r.body[i]) =>
        Cardinality({n \in DOMAIN r.order : r.order[n] = i}) = 1
  /\ \A n \in DOMAIN r.order : Exists(r.body[r.order[n]])

ListedBy(r, rank) ==
  /\ EveryQuoteOnce(r)
  /\ \A m, n \in DOMAIN r.order :
       m < n => NotAfter(r.body[r.order[m]], r.body[r.order[n]], rank)

\* The board's column order.
StaticRank == [s \in StageSet |-> RankIn(STAGES, s)]

\* The stage names in ascending order as text.
TextRank == [follow_up |-> 1, lost |-> 2, new |-> 3, tender |-> 4, won |-> 5]

\* C10 as claimed: the list holds every quote once, ordered by the static
\* rank of the stage (new, follow_up, tender, won, lost), then position
\* ascending, then nextChaseAt ascending with null last, then createdAt
\* descending.
C10_ListedByStaticRank ==
  (resp.req.op = "get" /\ resp.status = 200) => ListedBy(resp, StaticRank)

\* C10 as amended: the same with the stages in the order of their names as
\* text (follow_up, lost, new, tender, won).
C10_ListedByStageName ==
  (resp.req.op = "get" /\ resp.status = 200) => ListedBy(resp, TextRank)

\* A list of three quotes: one in follow_up ahead of two in new that share
\* a position, the one with a chase time ahead of the one without.
C10_Witness ==
  /\ resp.req.op = "get" /\ resp.status = 200
  /\ Len(resp.order) = 3
  /\ resp.body[resp.order[1]].stage = "follow_up"
  /\ resp.body[resp.order[2]].stage = "new"
  /\ resp.body[resp.order[3]].stage = "new"
  /\ resp.body[resp.order[2]].position = resp.body[resp.order[3]].position
  /\ resp.body[resp.order[2]].nextChaseAt # Null
  /\ resp.body[resp.order[3]].nextChaseAt = Null


(* ---- C11: two lists of an unchanged table ---- *)

\* C11: two calls of the list with no mutation between them return the same
\* quotes in the same order, also when quotes tie on every key of the
\* ORDER BY: a list answered right after another list that read the same
\* rows names them in the same order.
C11_SameListTwice ==
  [][(/\ resp.req.op = "get" /\ resp.status = 200
      /\ resp'.req.op = "get" /\ resp'.status = 200
      /\ resp'.body = resp.body)
     => resp'.order = resp.order]_vars

(* ---- C12: create without a title or a client name ---- *)

\* C12: a create whose body lacks the title or the client name is answered
\* with a 4xx and stores no quote.
C12_CreateValidates ==
  (/\ resp.req.op = "create"
   /\ (resp.req.patch.title = "~" \/ resp.req.patch.clientName = "~"))
  => /\ resp.status \in 400..499
     /\ ~Exists(quotes[resp.req.id])

(* ---- C13: an edit of an id that no quote has ---- *)

EditOps == {"put", "patchStage", "attach"}

\* A step that answers an edit of an id no quote has.
AnswersAbsent ==
  /\ resp'.status # 0
  /\ resp'.req.op \in EditOps
  /\ ~Exists(quotes[resp'.req.id])

\* Every step of an edit of an id no quote has leaves the table as it is.
AbsentEditsWriteNothing ==
  \A p \in Procs :
    (/\ req[p].op \in EditOps
     /\ ~Exists(quotes[req[p].id])
     /\ req'[p] # req[p])
    => quotes' = quotes

SendFailed(t) ==
  tick[t].pc = "send" /\ tick'[t] # tick[t] /\ tick'[t].pc # "mark"

\* Callback t's mark-sent write for the quote at hand wrote nothing in this
\* step.
MarkFailed(t) ==
  tick[t].pc = "mark" /\ tick'[t] # tick[t] /\ quotes' = quotes

\* C14: within one tick each due quote's outcome is isolated. When the send
\* or the mark-sent write for one listed quote fails, the callback goes on to
\* the next quote of its list (and returns after the last), no row changes
\* (what was marked stays marked), no request is answered or disturbed, and
\* the callbacks of other ticks stand as they were.
C14_FailureIsolated ==
  [][\A t \in Ticks :
       (SendFailed(t) \/ MarkFailed(t)) =>
         /\ IF tick[t].idx < Len(tick[t].due)
            THEN tick'[t] = [tick[t] EXCEPT !.pc = "send", !.idx = @ + 1]
            ELSE tick'[t].pc = "idle"
         /\ quotes' = quotes
         /\ req' = req /\ resp'.status = 0
         /\ now' = now
         /\ \A u \in Ticks \ {t} : tick'[u] = tick[u]]_vars

\* The tick of the last minute listed B then A; the send for B failed, and
\* the callback stands at the send for A.
C14_Witness ==
  \E t \in Ticks :
    /\ tick[t].due = <<"B", "A">> /\ tick[t].idx = 2 /\ tick[t].pc = "send"
    /\ hist.fails["B"] = 1 /\ hist.sends["B"] = 0

(* ---- C15: the engine acts only on due quotes ---- *)

\* The quote callback t has at hand.
AtHand(t) == tick[t].due[tick[t].idx]

\* C15: no send is attempted for, and no mark-sent write changes, a quote
\* that is not due at the tick's clock (reminderEmail null, nextChaseAt null
\* or nextChaseAt after the tick's now) when the engine acts on it.
C15_ActsOnlyOnDue ==
  [][\A t \in Ticks :
       /\ (tick[t].pc = "send" /\ tick'[t] # tick[t])
            => IsDue(quotes[AtHand(t)], tick[t].tnow)
       /\ (tick[t].pc = "mark" /\ tick'[t] # tick[t] /\ quotes' # quotes)
            => IsDue(quotes[AtHand(t)], tick[t].tnow)]_vars

(* ---- C16: the mark after a successful dispatch ---- *)

\* C16: after a successful dispatch (a delivered mail, or the log-only path
\* without a transport) the quote has nextChaseAt = null and lastChasedAt =
\* the time of the mark, both set by the one write; the engine never sets one
\* of the two fields alone, and a failed send sets neither.
C16_DispatchedIsMarked ==
  [][\A t \in Ticks :
       /\ (tick[t].pc = "mark" /\ tick'[t] # tick[t])
            => /\ quotes'[AtHand(t)].nextChaseAt = Null
               /\ quotes'[AtHand(t)].lastChasedAt = now
       /\ (tick[t].pc = "mark" /\ tick'[t] # tick[t]) =>
            \A i \in Ids :
              \/ quotes'[i] = quotes[i]
              \/ /\ i = AtHand(t)
                 /\ quotes'[i] = [quotes[i] EXCEPT !.nextChaseAt = Null,
                                                   !.lastChasedAt = now]
       /\ (tick[t].pc = "send" /\ tick'[t] # tick[t]) => quotes' = quotes]_vars

(* ---- C17: a due quote under fair ticking ---- *)

\* C17: with the scheduler firing every minute and the store answering, a
\* quote that is due and is not edited is attempted in every tick until a
\* send for it has succeeded: the callback of each minute in which the quote
\* is due comes to stand at the send for it, unless the quote has been marked
\* sent meanwhile. Once a send has succeeded and the mark-sent write is made,
\* the quote reaches nextChaseAt = null.
C17_DueIsAttemptedUntilSent ==
  \A q \in {"A", "B"} : \A t \in Ticks : \A n \in 1..MaxTime :
    /\ (tick[t].pc = "query" /\ tick[t].tnow = n /\ IsDue(quotes[q], n))
         ~> \/ tick[t].tnow = n /\ tick[t].pc = "send" /\ AtHand(t) = q
            \/ quotes[q].nextChaseAt = Null
    /\ (tick[t].pc = "mark" /\ AtHand(t) = q)
         ~> quotes[q].nextChaseAt = Null

\* No cap on the attempts: every tick of the run has attempted A and every
\* send has failed, and A is still due and its send is attempted again
\* whenever a tick comes.
C17_Witness ==
  /\ hist.fails["A"] = MaxTime /\ hist.sends["A"] = 0
  /\ IsDue(quotes["A"], now)

(* ---- C18: what a successful reorder leaves and answers ---- *)

\* C18: a reorder call answered 200, run alone, has set the stage and the
\* position of every stored quote it names to its move's values and left
\* those of every other quote as they were, and its answer is the freshly
\* loaded list of all the quotes: the table as it now is, every stored quote
\* once.
C18_ReorderApplied ==
  (resp.req.op = "reorder" /\ resp.status = 200 /\ served = 1) =>
    /\ \A i \in Ids :
         SameStagePos(quotes[i], ApplyMoves(resp.req.pre, resp.req.moves)[i])
    /\ resp.body = quotes
    /\ {resp.order[n] : n \in DOMAIN resp.order} = {i \in Ids : Exists(quotes[i])}
    /\ Len(resp.order) = Cardinality({i \in Ids : Exists(quotes[i])})

(* ---- C19: a PUT that names neither stage nor position ---- *)

\* C19: a PUT /api/quotes/:id whose body names neither stage nor position
\* changes the stage and the position of no quote, whether it runs alone or
\* beside another call that moves the same quote: its write leaves every
\* quote's stage and position as the last create, stage patch or reorder
\* set them.
C19_PutKeepsStageAndPosition ==
  [][\A p \in Procs :
       (/\ req[p].op = "put" /\ req[p].pc = "write"
        /\ req[p].patch.stage = "~" /\ req[p].patch.position = Unset
        /\ req'[p] # req[p])
       => \A i \in Ids : SameStagePos(quotes'[i], quotes[i])]_vars

(* ---- C20: the stage patch with a body { stage, position } ---- *)

\* C20: PATCH /api/quotes/:id/stage with a body { stage, position } sets the
\* addressed quote's stage and position to the body's values and leaves the
\* stage and position of every other quote as they were.
C20_StagePatchSetsPosition ==
  [][\A p \in Procs :
       (/\ req[p].op = "patchStage" /\ req[p].pc = "write"
        /\ req[p].body.position # Unset
        /\ req'[p] # req[p] /\ resp'.status = 200)
       => /\ quotes'[req[p].id].stage = req[p].body.stage
          /\ quotes'[req[p].id].position = req[p].body.position
          /\ \A j \in Ids \ {req[p].id} : SameStagePos(quotes'[j], quotes[j])]_vars

(* ---- C21: the stage of a stored quote ---- *)

\* C21: in every state each stored quote's stage is one of the board's five
\* stages (new, follow_up, tender, won, lost), whatever stage value a
\* request carried.
C21_StageInClosedSet ==
  \A i \in Ids : Exists(quotes[i]) => quotes[i].stage \in StageSet

(* ---- C22: the set of quote ids ---- *)

\* The step is the insert statement of a create call for id i.
InsertOf(i) ==
  \E p \in Procs :
    /\ req[p].op = "create" /\ req[p].id = i /\ req[p].pc = "insert"
    /\ req'[p] # req[p]

\* C22: the set of quote ids only grows, and only by create. No step removes
\* a stored quote; a quote that no id had is stored only by the insert of a
\* create call for that id, at once or when the transaction that insert ran
\* in is committed; no other statement writes a row for an id no quote has,
\* in particular no update of a reorder, PUT, stage patch, upload or
\* reminder dispatch.
C22_IdsGrowOnlyByCreate ==
  [][\A i \in Ids :
       /\ Exists(quotes[i]) => Exists(quotes'[i])
       /\ (~Exists(quotes[i]) /\ Exists(quotes'[i]))
            => \/ InsertOf(i)
               \/ \E c \in Conns : Exists(pend[c][i])
       /\ \A c \in Conns :
            (~Exists(quotes[i]) /\ pend[c][i] = NoWrite /\ pend'[c][i] # NoWrite)
              => InsertOf(i)]_vars

\* A reorder whose one move names C, which no quote has, was answered 200
\* and C is still not stored.
C22_Witness ==
  /\ resp.req.op = "reorder" /\ resp.status = 200
  /\ resp.req.moves = <<[id |-> "C", stage |-> "won", position |-> 1]>>
  /\ ~Exists(quotes["C"])
  /\ \A c \in Conns : pend[c]["C"] = NoWrite

(* ---- C23: the quote routes without a valid token ---- *)

\* A valid Bearer token: the Bearer scheme with a token signed by the server
\* and not expired.
ValidBearer(h) == h.scheme = "Bearer" /\ h.signed /\ ~h.expired

NoUpdates(u) == u.kind # "array" \/ Len(u.items) = 0

C26_PutChangesOnlyItsQuote ==
  [][\A p \in Procs :
       (/\ req[p].op = "put" /\ req[p].pc = "write" /\ req'[p] # req[p])
       => \A j \in Ids \ {req[p].id} : quotes'[j] = quotes[j]]_vars

(* ---- C27: the due time the engine cleared ---- *)

\* The engine has marked quote i: it carries a dispatch time and no due time.
Cleared(r) == Exists(r) /\ r.lastChasedAt # Null /\ r.nextChaseAt = Null

\* C27: once the engine has cleared a quote's nextChaseAt after a dispatch,
\* nextChaseAt stays null until a request whose patch names nextChaseAt sets
\* it: a step that gives the quote a due time again is the write of such a
\* request, never the write of an edit that does not name nextChaseAt.
C27_ClearedStaysCleared ==
  [][\A i \in Ids :
       (Cleared(quotes[i]) /\ quotes'[i].nextChaseAt # Null)
       => \E p \in Procs :
            /\ req[p].pc = "write" /\ req'[p] # req[p]
            /\ req[p].patch.nextChaseAt # Unset]_vars

(* ---- C28: what a tick changes ---- *)

\* Row r2 is row r1 but for lastChasedAt and nextChaseAt (updated_at is not
\* a field of the model's rows).
SameButChase(r2, r1) ==
  [r2 EXCEPT !.lastChasedAt = r1.lastChasedAt, !.nextChaseAt = r1.nextChaseAt] = r1

\* Tick t marks quote i in this step.
Marks(t, i) == tick[t].pc = "mark" /\ AtHand(t) = i /\ tick'[t] # tick[t]

\* C28: a reminder dispatch changes only lastChasedAt and nextChaseAt (and
\* updatedAt) of the dispatched quote: a step of the engine leaves every
\* other field of that quote and every field of every other quote as it
\* was, in the table and in what a connection holds uncommitted.
C28_TickChangesOnlyChaseTimes ==
  [][tick' # tick =>
       \A i \in Ids :
         /\ \/ quotes'[i] = quotes[i]
            \/ \E t \in Ticks : Marks(t, i) /\ SameButChase(quotes'[i], quotes[i])
         /\ \A c \in Conns :
              \/ pend'[c][i] = pend[c][i]
              \/ \E t \in Ticks : Marks(t, i) /\ SameButChase(pend'[c][i], View(c)[i])]_vars

\* Quote A was dispatched and marked: it carries a dispatch time and no due
\* time, and all else on the board is as it was before the tick.
C28_Witness ==
  /\ hist.sends["A"] = 1
  /\ quotes = [BoardStore EXCEPT !["A"].lastChasedAt = 1, !["A"].nextChaseAt = Null]

(* ---- C29: one customer per name ---- *)

\* The name as findOrCreateCustomer compares it: trimmed, without case.
NameKey(n) == toLowerCase(trim(n))

\* C29: findOrCreateCustomer is idempotent on the name compared without case
\* after trimming: in every state at most one customer is stored per such
\* name, and a call that is answered is answered 201 with the stored
\* customer of that name.
C29_OneCustomerPerName ==
  /\ \A m, n \in customers : NameKey(m) = NameKey(n) => m = n
  /\ (resp.req.op = "customer" /\ resp.status \notin {0, 400, 401})
       => /\ resp.status = 201
          /\ resp.customer \in customers
          /\ NameKey(resp.customer) = NameKey(resp.req.name)

(* ---- C30: one user per username ---- *)

\* C30: after any sequence and interleaving of registrations no two users
\* have the same lower-cased username, and every registration that asks for
\* a username already taken, one that loses a race with a registration of
\* the same name included, creates no user and is answered with 'Username
\* already in use'.
C30_TakenNameIsRefused ==
  [][/\ \A u, v \in users' : toLowerCase(u) = toLowerCase(v) => u = v
     /\ (/\ resp'.req.op = "register" /\ resp'.status \notin {0, 400}
         /\ resp'.req.name \in users)
          => /\ users' = users
             /\ resp'.message = "Username already in use"]_vars

(* ---- C24: the move list of a drag ---- *)

\* The stage a card has once the drop is done.
FinalStage(q, result) ==
  IF q.id = result.draggableId THEN result.destination.droppableId ELSE q.stage

\* The move list names, for stage s, every quote that is in s once the drop
\* is done, each once, numbered 1..N, the others in the order they had.
RenumbersAll(cards, updates, result, s) ==
  LET members == {n \in 1..Len(cards) : FinalStage(cards[n], result) = s}
      naming  == {m \in 1..Len(updates) : updates[m].stage = s}
  IN  /\ {updates[m].id : m \in naming} = {cards[n].id : n \in members}
      /\ \A m1, m2 \in 1..Len(updates) : updates[m1].id = updates[m2].id => m1 = m2
      /\ {updates[m].position : m \in naming} = 1..Cardinality(members)
      /\ \A m1, m2 \in naming, n1, n2 \in members :
           (/\ cards[n1].id = updates[m1].id /\ cards[n2].id = updates[m2].id
            /\ cards[n1].id # result.draggableId /\ cards[n2].id # result.draggableId
            /\ cards[n1].stage = cards[n2].stage
            /\ cards[n1].position < cards[n2].position)
           => updates[m1].position < updates[m2].position

\* The dragged quote is numbered destination index + 1 in its new stage.
DraggedAtIndex(updates, result) ==
  \E m \in 1..Len(updates) :
    /\ updates[m].id = result.draggableId
    /\ updates[m].stage = result.destination.droppableId
    /\ updates[m].position = result.destination.index + 1

\* C24: the move list onDragEnd computes for one drag names every quote of
\* each affected stage (source and destination) and numbers each stage's
\* quotes 1..N in the final order, with the dragged quote at destination
\* index + 1, on every board, also when a search filter hides some quotes
\* of an affected stage.
C24_MoveListRenumbersStages ==
  [][(ui.pc = "idle" /\ ui'.pc = "patch")
       => /\ DraggedAtIndex(ui'.updates, ui'.drag)
          /\ \A s \in {ui'.drag.source.droppableId, ui'.drag.destination.droppableId} :
               RenumbersAll(ui.quotes, ui'.updates, ui'.drag, s)]_vars

\* The same when the search term hides no quote of the board.
C24_WhenNothingHidden ==
  [][(/\ ui.pc = "idle" /\ ui'.pc = "patch"
      /\ filteredQuotes(ui.quotes, ui.filter) = ui.quotes)
       => /\ DraggedAtIndex(ui'.updates, ui'.drag)
          /\ \A s \in {ui'.drag.source.droppableId, ui'.drag.destination.droppableId} :
               RenumbersAll(ui.quotes, ui'.updates, ui'.drag, s)]_vars

====
